---- MODULE Spec2Model ----
(***************************************************************************)
(* hashindex-rs: an explorer walks a directory tree and sends every file   *)
(* path over a bounded channel to a pool of workers, which hash each file  *)
(* and print one record per file.                                          *)
(*   src/src/lib.rs             explore_path, run_workers, work_print,     *)
(*                              calc_hashes, HashAlgorithm                 *)
(*   src/src/hasher_wrapper.rs  HasherWrapper, variants, check_hash        *)
(*   src/src/main.rs            main (channel creation, join! of the two)  *)
(***************************************************************************)
EXTENDS Integers, Sequences, FiniteSets, TLC

(***************************************************************************)
(* Bounds of the model.                                                    *)
(***************************************************************************)
\* number_of_workers is drawn from 0..MaxWorkers
MaxWorkers == 2
\* the channel's capacity is drawn from 1..MaxCap
MaxCap == 2
\* at most MaxFaults I/O failures (of a directory or of a file) occur in one run
MaxFaults == 1
\* the tree under the root holds at most MaxEntries entries
MaxEntries == 2
\* the --hash-list argument names at most MaxTokens comma-separated tokens
MaxTokens == 2
\* calc_hashes is followed step by step for at most MaxAlgorithms algorithms
MaxAlgorithms == 2

VARIABLES
    \* ---- the file system the run sees
    rootKind,       \* what the root path names: "missing", "file" or "dir"
    fs,             \* the entries present under the root (paths, as name sequences)
    \* ---- main
    hash_list,      \* args.hash_list: the characters given, or NoHashList
    mainPc,
    valid_hash,
    invalid_hash,
    \* ---- inputs of run_workers
    number_of_workers,
    hash_algorithms,
    \* ---- the channel (smol::channel::bounded)
    cap,
    queue,
    senderAlive,    \* the explorer still owns the Sender
    receivers,      \* number of live Receiver handles
    \* ---- run_workers
    rwPc,
    workers,        \* number of workers spawned so far
    task_hash_algorithms,
    \* ---- explore_path / explore_folder_inner_stacked
    exPc,
    exResult,
    dir_stack,
    dir,            \* the directory whose entries are being read
    dir_entries,    \* entries of dir not yet returned by try_next
    sending,        \* the path handed to send_blocking
    \* ---- work_print, per worker
    wPc,
    path_buf,
    \* ---- calc_hashes, followed read by read
    calcPc,
    opened,         \* number of File::open calls that succeeded
    file_pos,       \* the position of the open file
    bytes_read,
    file_hashers,   \* `hashers`
    file_hashes,    \* `hashes`
    fedTo,          \* history: per hasher, the chunks given to update
    \* ---- println!, followed piece by piece
    printPc,        \* per worker
    line_pos,       \* per worker: pieces of its line written so far
    stdout_lock,    \* the worker holding the lock of Stdout, or 0
    stdout_pieces,  \* what has reached the standard output, piece by piece
    \* ---- the sinks
    stdout,
    stderr,
    \* ---- history (not program state; read only by the properties)
    sent,           \* paths accepted by the channel, in order
    received,       \* the path of every successful recv, in order
    pushed,         \* every path ever pushed on dir_stack
    skipped,        \* directories whose read_dir failed
    outcome,        \* per processed path: what happened in the worker
    faults          \* number of I/O failures so far

vars == <<rootKind, fs, hash_list, mainPc, valid_hash, invalid_hash,
          number_of_workers, hash_algorithms, cap, queue,
          senderAlive, receivers, rwPc, workers, task_hash_algorithms,
          exPc, exResult, dir_stack, dir, dir_entries, sending, wPc,
          path_buf, calcPc, opened, file_pos, bytes_read, file_hashers,
          file_hashes, fedTo, printPc, line_pos, stdout_lock, stdout_pieces,
          stdout, stderr, sent, received, pushed, skipped, outcome,
          faults>>

(***************************************************************************)
(* Strings that the code inspects character by character are sequences of  *)
(* one-character strings.                                                  *)
(***************************************************************************)
Xxh64Name == <<"x", "x", "h", "6", "4">>
Xxh3Name == <<"x", "x", "h", "3">>
BogusName == <<"m", "d", "5">>

\* str::to_lowercase on the characters the model uses
LowerChar(c) ==
    CASE c = "X" -> "x"
      [] c = "H" -> "h"
      [] c = "M" -> "m"
      [] c = "D" -> "d"
      [] OTHER -> c

ToLowercase(s) == [i \in 1..Len(s) |-> LowerChar(s[i])]

\* HasherWrapper::VARIANTS, in declaration order, with their strum names
variants == <<Xxh64Name, Xxh3Name>>

default_hash == Xxh64Name

\* str::replace(c, ""): every occurrence of the character c is removed
RemoveAll(s, c) == SelectSeq(s, LAMBDA x : x # c)

\* str::split(sep) for a one-character separator: the pieces between the
\* separators, empty pieces included; a string without separator is one piece
RECURSIVE Split(_, _)
Split(s, sep) ==
    IF \A i \in 1..Len(s) : s[i] # sep THEN <<s>>
    ELSE LET i == CHOOSE k \in 1..Len(s) :
                      s[k] = sep /\ \A j \in 1..(k - 1) : s[j] # sep
         IN  <<SubSeq(s, 1, i - 1)>> \o Split(SubSeq(s, i + 1, Len(s)), sep)

\* check_hash without the to_lowercase of line 75
check_hash_case_sensitive(list) ==
    LET implemented_hashes == variants
        hash_cleaned == RemoveAll(list, " ")
        candidates == Split(hash_cleaned, ",")
        Implemented(candidate) ==
            \E i \in 1..Len(implemented_hashes) : implemented_hashes[i] = candidate
        Unimplemented(candidate) == ~Implemented(candidate)
    IN  <<SelectSeq(candidates, Implemented), SelectSeq(candidates, Unimplemented)>>

\* check_hash: <<valid, invalid>>
check_hash(list) ==
    LET implemented_hashes == variants
        hash_cleaned == ToLowercase(RemoveAll(list, " "))
        candidates == Split(hash_cleaned, ",")
        Implemented(candidate) ==
            \E i \in 1..Len(implemented_hashes) : implemented_hashes[i] = candidate
        Unimplemented(candidate) == ~Implemented(candidate)
    IN  <<SelectSeq(candidates, Implemented), SelectSeq(candidates, Unimplemented)>>

(***************************************************************************)
(* HashAlgorithm (lib.rs) and HasherWrapper (hasher_wrapper.rs).           *)
(***************************************************************************)
NoAlgorithm == "None"

\* from_string with the arm of xxh3 missing
from_string_without_xxh3(s) ==
    LET l == ToLowercase(s)
    IN  CASE l = Xxh64Name -> "Xxh64"
          [] OTHER -> NoAlgorithm

\* HashAlgorithm::from_string: Some(variant) or None
from_string(s) ==
    LET l == ToLowercase(s)
    IN  CASE l = Xxh64Name -> "Xxh64"
          [] l = Xxh3Name -> "Xxh3"
          [] OTHER -> NoAlgorithm

\* the conversion stopping at the first name that is not recognised
RECURSIVE MapWhileFromString(_)
MapWhileFromString(list) ==
    IF list = <<>> THEN <<>>
    ELSE LET a == from_string(Head(list))
         IN  IF a = NoAlgorithm THEN <<>>
             ELSE <<a>> \o MapWhileFromString(Tail(list))

\* hash_algorithms.into_iter().filter_map(HashAlgorithm::from_string).collect()
RECURSIVE FilterMapFromString(_)
FilterMapFromString(list) ==
    IF list = <<>> THEN <<>>
    ELSE LET a == from_string(Head(list))
             rest == FilterMapFromString(Tail(list))
         IN  IF a = NoAlgorithm THEN rest ELSE <<a>> \o rest

\* The digest functions themselves live in the xxhash_rust crate.  They are
\* stood in for by two different streaming folds over the bytes, reduced to
\* the width the model's integers allow.
DigestModulus == 65521

\* new_xxh64() / new_xxh3(): a fresh accumulator for one (file, algorithm)
NewHasher(algorithm) ==
    IF algorithm = "Xxh64" THEN [kind |-> "Xxh64", state |-> 0]
    ELSE [kind |-> "Xxh3", state |-> 1]

RECURSIVE FoldBytes(_, _, _, _)
FoldBytes(state, data, mul, add) ==
    IF data = <<>> THEN state
    ELSE FoldBytes((state * mul + Head(data) + add) % DigestModulus,
                   Tail(data), mul, add)

\* HasherWrapper::update
HasherUpdate(hasher, data) ==
    IF hasher.kind = "Xxh64"
    THEN [hasher EXCEPT !.state = FoldBytes(hasher.state, data, 31, 1)]
    ELSE [hasher EXCEPT !.state = FoldBytes(hasher.state, data, 37, 5)]

HexDigits == <<"0", "1", "2", "3", "4", "5", "6", "7",
               "8", "9", "A", "B", "C", "D", "E", "F">>

\* format!("{:0wX}", n): upper-case hexadecimal, zero-padded to width w.
\* The digests of the model stay below 16^8, so the digits above the eighth
\* are the padding zeros.
FormatHex(n, width) ==
    [i \in 1..width |->
        IF width - i > 7 THEN "0"
        ELSE HexDigits[((n \div (16 ^ (width - i))) % 16) + 1]]

Xxh64HexWidth == 16
Xxh3HexWidth == 32

\* HasherWrapper::finish
HasherFinish(hasher) ==
    IF hasher.kind = "Xxh64" THEN FormatHex(hasher.state, Xxh64HexWidth)
    ELSE FormatHex(hasher.state, Xxh3HexWidth)

\* the read buffer of calc_hashes
BufferSize == 8192

Min(a, b) == IF a < b THEN a ELSE b
Max(a, b) == IF a < b THEN b ELSE a

\* The sizes a sequence of file.read(&mut buffer) calls can return for a file
\* of n bytes before the final 0: any positive sizes, none above the buffer,
\* that add up to n.
RECURSIVE ReadSizes(_)
ReadSizes(n) ==
    IF n = 0 THEN {<<>>}
    ELSE UNION {{<<k>> \o r : r \in ReadSizes(n - k)} : k \in 1..Min(n, BufferSize)}

\* hashers.iter_mut().for_each(|hasher| hasher.update(&buffer[..bytes_read]))
UpdateAll(hashers, chunk) ==
    [i \in 1..Len(hashers) |-> HasherUpdate(hashers[i], chunk)]

\* the read loop of calc_hashes over the reads `sizes`, starting at `pos`
RECURSIVE ReadLoop(_, _, _, _)
ReadLoop(hashers, content, pos, sizes) ==
    IF sizes = <<>> THEN hashers
    ELSE ReadLoop(UpdateAll(hashers, SubSeq(content, pos + 1, pos + Head(sizes))),
                  content, pos + Head(sizes), Tail(sizes))

\* calc_hashes collecting the digests from the last hasher to the first
calc_hashes_reversed(content, sizes, algorithms) ==
    LET hashers == [i \in 1..Len(algorithms) |-> NewHasher(algorithms[i])]
        fed == ReadLoop(hashers, content, 0, sizes)
    IN  [i \in 1..Len(fed) |-> HasherFinish(fed[Len(fed) + 1 - i])]

\* calc_hashes on an opened, readable file: the Ok(hashes) value
calc_hashes(content, sizes, algorithms) ==
    LET hashers == [i \in 1..Len(algorithms) |-> NewHasher(algorithms[i])]
        fed == ReadLoop(hashers, content, 0, sizes)
    IN  [i \in 1..Len(fed) |-> HasherFinish(fed[i])]


(***************************************************************************)
(* The file system.  A path is the sequence of names below the root path   *)
(* given to explore_path; <<>> is the root path itself.                    *)
(***************************************************************************)
AllEntries == {<<"a">>, <<"c">>, <<"d">>, <<"d", "b">>, <<"lf">>, <<"ld">>}

Names == {"a", "b", "c", "d", "lf", "ld"}

\* what the entry itself is (lstat)
NodeKind(p) ==
    CASE p = <<"a">> -> "file"
      [] p = <<"c">> -> "file"
      [] p = <<"d">> -> "dir"
      [] p = <<"d", "b">> -> "file"
      [] p = <<"lf">> -> "symlink"
      [] p = <<"ld">> -> "symlink"
      [] OTHER -> "none"

\* where a symbolic link points
LinkTarget(p) == IF p = <<"lf">> THEN <<"a">> ELSE <<"d">>

\* the bytes of a regular file
Content(p) ==
    CASE p = <<"a">> -> <<104, 105>>
      [] p = <<"c">> -> <<>>
      [] OTHER -> <<33>>

Front(p) == SubSeq(p, 1, Len(p) - 1)
Last(p) == p[Len(p)]

NoPath == <<"?">>

\* The entry a path names once every symbolic link on the way is followed,
\* as the kernel resolves it for stat(2) and open(2); NoPath if there is none.
RECURSIVE Canon(_, _, _)
Canon(p, root, present) ==
    IF p = <<>> THEN (IF root = "missing" THEN NoPath ELSE <<>>)
    ELSE LET parent == Canon(Front(p), root, present)
             q == parent \o <<Last(p)>>
             parentIsDir == IF parent = <<>> THEN root = "dir"
                            ELSE parent # NoPath /\ NodeKind(parent) = "dir"
         IN  IF ~parentIsDir \/ q \notin present THEN NoPath
             ELSE IF NodeKind(q) = "symlink"
                  THEN Canon(LinkTarget(q), root, present)
                  ELSE q

\* std::fs::metadata(path): follows symbolic links
Metadata(p, root, present) ==
    LET c == Canon(p, root, present)
    IN  IF c = NoPath THEN "none"
        ELSE IF c = <<>> THEN root
        ELSE NodeKind(c)

\* Path::exists, Path::is_dir, Path::is_file: all three go through metadata
PathExists(p) == Metadata(p, rootKind, fs) # "none"
PathIsDir(p) == Metadata(p, rootKind, fs) = "dir"
PathIsFile(p) == Metadata(p, rootKind, fs) = "file"

\* the names fs::read_dir(d) yields for a directory it can open
ReadDirNames(d) ==
    {n \in Names : Canon(d, rootKind, fs) \o <<n>> \in fs}

\* the trees Init draws from: an entry is present only inside a present directory
WellFormed(present) ==
    /\ \A p \in present : Len(p) > 1 => Front(p) \in present
    /\ Cardinality(present) <= MaxEntries


(***************************************************************************)
(* The pipeline: main's join!(run_workers(..), explore_path(..)).          *)
(***************************************************************************)
label == "L"
delimiter == <<",">>

\* the hash lists run_workers is started with: validated lists, repeats included
HashLists == {<<Xxh3Name, Xxh64Name>>}

WorkerIds == 1..Max(MaxWorkers, 1)

\* Vec<String>::join(&delimiter)
RECURSIVE JoinStr(_, _)
JoinStr(list, sep) ==
    IF list = <<>> THEN <<>>
    ELSE IF Len(list) = 1 THEN list[1]
    ELSE list[1] \o sep \o JoinStr(Tail(list), sep)

\* Sender::is_closed / Receiver::is_closed: one side has no handle left
IsClosed == ~senderAlive \/ receivers = 0

\* args.hash_list is None
NoHashList == <<"None">>

calcVars == <<calcPc, opened, file_pos, bytes_read, file_hashers, file_hashes,
              fedTo>>

\* calc_hashes is not being followed
CalcIdle ==
    /\ calcPc = "idle"
    /\ opened = 0
    /\ file_pos = 0
    /\ bytes_read = 0
    /\ file_hashers = <<>>
    /\ file_hashes = <<>>
    /\ fedTo = <<>>

printVars == <<printPc, line_pos, stdout_lock, stdout_pieces>>

\* println! is not being followed
PrintIdle ==
    /\ printPc = [w \in WorkerIds |-> "idle"]
    /\ line_pos = [w \in WorkerIds |-> 0]
    /\ stdout_lock = 0
    /\ stdout_pieces = <<>>

\* the channel just created and the two futures of join! not yet polled
Fresh ==
    /\ CalcIdle
    /\ PrintIdle
    /\ queue = <<>>
    /\ senderAlive = TRUE
    /\ receivers = 1
    /\ workers = 0
    /\ task_hash_algorithms = <<>>
    /\ exResult = "none"
    /\ dir_stack = <<>>
    /\ dir = NoPath
    /\ dir_entries = {}
    /\ sending = NoPath
    /\ wPc = [w \in WorkerIds |-> "unspawned"]
    /\ path_buf = [w \in WorkerIds |-> NoPath]
    /\ stdout = <<>>
    /\ stderr = <<>>
    /\ sent = <<>>
    /\ received = <<>>
    /\ pushed = {}
    /\ skipped = {}
    /\ outcome = {}
    /\ faults = 0

\* run_workers and explore_path joined on a channel, as a caller of the
\* library starts them
Init ==
    /\ rootKind \in {"missing", "file", "dir"}
    /\ fs \in IF rootKind = "dir"
              THEN {present \in SUBSET AllEntries : WellFormed(present)}
              ELSE {{}}
    /\ hash_list = NoHashList
    /\ mainPc = "join"
    /\ valid_hash = <<>>
    /\ invalid_hash = <<>>
    /\ number_of_workers \in 0..MaxWorkers
    /\ hash_algorithms \in HashLists
    /\ cap \in 1..MaxCap
    /\ rwPc = "start"
    /\ exPc = "start"
    /\ Fresh

fsVars == <<rootKind, fs, number_of_workers, hash_list, valid_hash, invalid_hash>>
mainVars == <<mainPc, hash_algorithms, cap>>
rwVars == <<rwPc, workers, task_hash_algorithms>>
exVars == <<exPc, exResult, dir_stack, dir, dir_entries, sending>>
exHist == <<sent, pushed, skipped>>
\* an I/O failure may happen while fewer than MaxFaults have
MayFail == faults < MaxFaults
wHist == <<received, outcome>>
sinks == <<stdout, stderr>>

(***************************************************************************)
(* run_workers                                                             *)
(***************************************************************************)
\* the clamp written with min in place of max
ClampedWorkersMin == Min(number_of_workers, 1)

\* let number_of_workers = number_of_workers.max(1)
ClampedWorkers == Max(number_of_workers, 1)

\* lines 105-112: the clamp and the conversion of the hash list
RunWorkersStart ==
    /\ rwPc = "start"
    /\ task_hash_algorithms' = FilterMapFromString(hash_algorithms)
    /\ rwPc' = "spawn"
    /\ UNCHANGED <<fsVars, mainVars, calcVars, printVars, queue, senderAlive, receivers, workers, exVars,
                   wPc, path_buf, sinks, exHist, wHist, faults>>

\* one turn of the spawn loop: receive.clone() moves into a new worker task
RunWorkersSpawn ==
    /\ rwPc = "spawn"
    /\ workers < ClampedWorkers
    /\ workers' = workers + 1
    /\ receivers' = receivers + 1
    /\ wPc' = [wPc EXCEPT ![workers + 1] = "recv"]
    /\ rwPc' = IF workers + 1 = ClampedWorkers THEN "join" ELSE "spawn"
    /\ UNCHANGED <<fsVars, mainVars, calcVars, printVars, queue, senderAlive, task_hash_algorithms, exVars,
                   path_buf, sinks, exHist, wHist, faults>>

\* for worker in workers { worker.await }; Ok(()): `receive` is dropped on return
RunWorkersJoin ==
    /\ rwPc = "join"
    /\ \A w \in 1..workers : wPc[w] = "done"
    /\ rwPc' = "returned"
    /\ receivers' = receivers - 1
    /\ UNCHANGED <<fsVars, mainVars, calcVars, printVars, queue, senderAlive, workers, task_hash_algorithms,
                   exVars, wPc, path_buf, sinks, exHist, wHist, faults>>


(***************************************************************************)
(* explore_path and explore_folder_inner_stacked                           *)
(***************************************************************************)
\* the future returns: its `sender` argument is dropped
ExploreReturn(result) ==
    /\ exResult' = result
    /\ exPc' = "done"
    /\ senderAlive' = FALSE

\* ExploreStart without the existence check of lines 60-62
ExploreStartUnchecked ==
    /\ exPc = "start"
    /\ rwPc \in {"join", "returned"}
    /\ dir_stack' = <<(<<>>)>>
    /\ exPc' = "pop"
    /\ UNCHANGED <<exResult, senderAlive>>
    /\ UNCHANGED <<fsVars, mainVars, calcVars, printVars, queue, receivers, rwVars, dir, dir_entries, sending,
                   wPc, path_buf, sinks, exHist, wHist, faults>>

\* ExploreStart handing a root that is a regular file to the workers
ExploreStartSendsRootFile ==
    /\ exPc = "start"
    /\ rwPc \in {"join", "returned"}
    /\ IF ~PathExists(<<>>)
       THEN /\ ExploreReturn("Err")
            /\ UNCHANGED <<dir_stack, sending>>
       ELSE IF PathIsFile(<<>>)
       THEN /\ sending' = <<>>
            /\ exPc' = "send"
            /\ UNCHANGED <<dir_stack, exResult, senderAlive>>
       ELSE /\ dir_stack' = <<(<<>>)>>
            /\ exPc' = "pop"
            /\ UNCHANGED <<exResult, senderAlive, sending>>
    /\ UNCHANGED <<fsVars, mainVars, calcVars, printVars, queue, receivers,
                   rwVars, dir, dir_entries, wPc, path_buf, sinks, exHist,
                   wHist, faults>>

\* lines 59-63 and 74.  join! polls run_workers first, and its first poll
\* runs through the whole spawn loop before explore_path is polled.
ExploreStart ==
    /\ exPc = "start"
    /\ rwPc \in {"join", "returned"}
    /\ IF ~PathExists(<<>>)
       THEN /\ ExploreReturn("Err")
            /\ UNCHANGED dir_stack
       ELSE /\ dir_stack' = <<(<<>>)>>
            /\ exPc' = "pop"
            /\ UNCHANGED <<exResult, senderAlive>>
    /\ UNCHANGED <<fsVars, mainVars, calcVars, printVars, queue, receivers, rwVars, dir, dir_entries, sending,
                   wPc, path_buf, sinks, exHist, wHist, faults>>

\* lines 75-76: dir_stack.pop(), then fs::read_dir(dir), or Ok(()) at line 90
ExplorePop ==
    /\ exPc = "pop"
    /\ IF dir_stack = <<>>
       THEN /\ ExploreReturn("Ok")
            /\ UNCHANGED <<dir_stack, dir, dir_entries, skipped, faults>>
       ELSE /\ dir_stack' = Front(dir_stack)
            /\ UNCHANGED <<exResult, senderAlive>>
            /\ \E opens \in {o \in BOOLEAN : o = PathIsDir(Last(dir_stack)) \/ (~o /\ MayFail)} :
                 IF opens
                 THEN /\ dir' = Last(dir_stack)
                      /\ dir_entries' = ReadDirNames(Last(dir_stack))
                      /\ exPc' = "next"
                      /\ UNCHANGED <<skipped, faults>>
                 ELSE /\ skipped' = skipped \cup {Last(dir_stack)}
                      /\ faults' = IF PathIsDir(Last(dir_stack)) THEN faults + 1 ELSE faults
                      /\ UNCHANGED <<exPc, dir, dir_entries>>
    /\ UNCHANGED <<fsVars, mainVars, calcVars, printVars, queue, receivers, rwVars, sending, wPc, path_buf,
                   sinks, sent, pushed, wHist>>

\* line 77, an entry: lines 78-84 up to the call of send_blocking
ExploreEntry ==
    /\ exPc = "next"
    /\ \E n \in dir_entries :
         LET path == dir \o <<n>>
         IN  /\ dir_entries' = dir_entries \ {n}
             /\ IF PathIsDir(path)
                THEN /\ dir_stack' = Append(dir_stack, path)
                     /\ pushed' = pushed \cup {path}
                     /\ UNCHANGED <<exPc, sending>>
                ELSE IF PathIsFile(path)
                THEN /\ sending' = path
                     /\ exPc' = "send"
                     /\ UNCHANGED <<dir_stack, pushed>>
                ELSE UNCHANGED <<exPc, sending, dir_stack, pushed>>
    /\ UNCHANGED <<fsVars, mainVars, calcVars, printVars, queue, senderAlive, receivers, rwVars, exResult, dir,
                   wPc, path_buf, sinks, sent, skipped, wHist, faults>>

\* line 77, None: the directory is exhausted
ExploreEndOfDir ==
    /\ exPc = "next"
    /\ dir_entries = {}
    /\ exPc' = "pop"
    /\ UNCHANGED <<fsVars, mainVars, calcVars, printVars, queue, senderAlive, receivers, rwVars, exResult,
                   dir_stack, dir, dir_entries, sending, wPc, path_buf, sinks,
                   exHist, wHist, faults>>

\* line 77, Err: try_next().await? returns the error from the function, and
\* line 63 returns it from explore_path
ExploreEntryError ==
    /\ exPc = "next"
    /\ MayFail
    /\ faults' = faults + 1
    /\ ExploreReturn("Err")
    /\ UNCHANGED <<fsVars, mainVars, calcVars, printVars, queue, receivers, rwVars, dir_stack, dir,
                   dir_entries, sending, wPc, path_buf, sinks, exHist, wHist>>

\* ExploreSend on a channel that takes the task whether or not it is full
ExploreSendUnbounded ==
    /\ exPc = "send"
    /\ IF receivers = 0
       THEN UNCHANGED <<queue, sent>>
       ELSE /\ queue' = Append(queue, sending)
            /\ sent' = Append(sent, sending)
    /\ sending' = NoPath
    /\ exPc' = "next"
    /\ UNCHANGED <<fsVars, mainVars, calcVars, printVars, senderAlive, receivers, rwVars, exResult,
                   dir_stack, dir, dir_entries, wPc, path_buf, sinks, pushed,
                   skipped, wHist, faults>>

\* line 83: send_blocking waits while the channel is full; its Err on a
\* closed channel is discarded
ExploreSend ==
    /\ exPc = "send"
    /\ IF receivers = 0
       THEN UNCHANGED <<queue, sent>>
       ELSE /\ Len(queue) < cap
            /\ queue' = Append(queue, sending)
            /\ sent' = Append(sent, sending)
    /\ sending' = NoPath
    /\ exPc' = "next"
    /\ UNCHANGED <<fsVars, mainVars, calcVars, printVars, senderAlive, receivers, rwVars, exResult, dir_stack,
                   dir, dir_entries, wPc, path_buf, sinks, pushed, skipped,
                   wHist, faults>>

(***************************************************************************)
(* work_print                                                              *)
(***************************************************************************)
\* WorkerRecv reading the head of the buffer without taking it out
WorkerRecvPeek(w) ==
    /\ wPc[w] = "recv"
    /\ IF queue # <<>>
       THEN /\ path_buf' = [path_buf EXCEPT ![w] = Head(queue)]
            /\ received' = Append(received, Head(queue))
            /\ wPc' = [wPc EXCEPT ![w] = "process"]
            /\ UNCHANGED queue
       ELSE /\ IsClosed
            /\ wPc' = [wPc EXCEPT ![w] = "check"]
            /\ UNCHANGED <<path_buf, queue, received>>
    /\ UNCHANGED <<fsVars, mainVars, calcVars, printVars, senderAlive, receivers, rwVars, exVars, sinks,
                   exHist, outcome, faults>>

\* WorkerRecv that keeps waiting on an empty channel after it was closed
WorkerRecvNoWake(w) ==
    /\ wPc[w] = "recv"
    /\ queue # <<>>
    /\ path_buf' = [path_buf EXCEPT ![w] = Head(queue)]
    /\ queue' = Tail(queue)
    /\ received' = Append(received, Head(queue))
    /\ wPc' = [wPc EXCEPT ![w] = "process"]
    /\ UNCHANGED <<fsVars, mainVars, calcVars, printVars, senderAlive, receivers, rwVars, exVars, sinks,
                   exHist, outcome, faults>>

\* line 145: recv() returns a buffered task, or Err once the channel is
\* closed and empty, and waits otherwise
WorkerRecv(w) ==
    /\ wPc[w] = "recv"
    /\ IF queue # <<>>
       THEN /\ path_buf' = [path_buf EXCEPT ![w] = Head(queue)]
            /\ queue' = Tail(queue)
            /\ received' = Append(received, Head(queue))
            /\ wPc' = [wPc EXCEPT ![w] = "process"]
       ELSE /\ IsClosed
            /\ wPc' = [wPc EXCEPT ![w] = "check"]
            /\ UNCHANGED <<path_buf, queue, received>>
    /\ UNCHANGED <<fsVars, mainVars, calcVars, printVars, senderAlive, receivers, rwVars, exVars, sinks,
                   exHist, outcome, faults>>

\* what can happen to one received path in lines 146-163
Outcomes == {"not_file", "hash_err", "size_err", "ok"}

\* println! of line 163
Record(path, hashes, size) ==
    [label |-> label, hash |-> JoinStr(hashes, delimiter), size |-> size,
     path |-> path]

\* the bookkeeping common to every way lines 146-163 can go for worker w
Processed(w, o) ==
    /\ wPc[w] = "process"
    /\ o = "ok" \/ MayFail
    /\ faults' = (IF o = "ok" THEN faults ELSE faults + 1)
    /\ outcome' = outcome \cup {<<path_buf[w], o>>}
    /\ path_buf' = [path_buf EXCEPT ![w] = NoPath]
    /\ UNCHANGED <<fsVars, mainVars, calcVars, printVars, queue, senderAlive, receivers, rwVars, exVars,
                   exHist, received>>

\* lines 146-147: the path is no regular file any more; continue
WorkerNotFile(w) ==
    /\ Processed(w, "not_file")
    /\ wPc' = [wPc EXCEPT ![w] = "recv"]
    /\ UNCHANGED sinks

\* WorkerHashError leaving the loop instead of continuing
WorkerHashErrorBreaks(w) ==
    /\ Processed(w, "hash_err")
    /\ stderr' = Append(stderr, [what |-> "hash", path |-> path_buf[w]])
    /\ wPc' = [wPc EXCEPT ![w] = "check"]
    /\ UNCHANGED stdout

\* lines 149-154: File::open or a read failed in calc_hashes; report, continue
WorkerHashError(w) ==
    /\ Processed(w, "hash_err")
    /\ stderr' = Append(stderr, [what |-> "hash", path |-> path_buf[w]])
    /\ wPc' = [wPc EXCEPT ![w] = "recv"]
    /\ UNCHANGED stdout

\* lines 156-161: metadata() failed; report, continue
WorkerSizeError(w) ==
    /\ Processed(w, "size_err")
    /\ stderr' = Append(stderr, [what |-> "size", path |-> path_buf[w]])
    /\ wPc' = [wPc EXCEPT ![w] = "recv"]
    /\ UNCHANGED stdout

\* lines 149-163 with nothing failing: the record is printed
WorkerPrint(w) ==
    /\ Processed(w, "ok")
    /\ PathIsFile(path_buf[w])
    /\ \E content \in {Content(Canon(path_buf[w], rootKind, fs))} :
       \E sizes \in ReadSizes(Len(content)) :
       \E hashes \in {calc_hashes(content, sizes, task_hash_algorithms)} :
         stdout' = Append(stdout, Record(path_buf[w], hashes, Len(content)))
    /\ wPc' = [wPc EXCEPT ![w] = "check"]
    /\ UNCHANGED stderr

\* lines 146-163 for the received path
WorkerProcess(w) ==
    \/ WorkerNotFile(w)
    \/ WorkerHashError(w)
    \/ WorkerSizeError(w)
    \/ WorkerPrint(w)

\* WorkerCheckClosed leaving the loop whether or not the channel is closed
WorkerCheckClosedAlways(w) ==
    /\ wPc[w] = "check"
    /\ wPc' = [wPc EXCEPT ![w] = "done"]
    /\ receivers' = receivers - 1
    /\ UNCHANGED <<fsVars, mainVars, calcVars, printVars, queue, senderAlive,
                   rwVars, exVars, path_buf, sinks, exHist, wHist, faults>>

\* lines 166-168: break when the channel is closed; the worker's receiver
\* is dropped as work_print returns
WorkerCheckClosed(w) ==
    /\ wPc[w] = "check"
    /\ IF IsClosed
       THEN /\ wPc' = [wPc EXCEPT ![w] = "done"]
            /\ receivers' = receivers - 1
       ELSE /\ wPc' = [wPc EXCEPT ![w] = "recv"]
            /\ UNCHANGED receivers
    /\ UNCHANGED <<fsVars, mainVars, calcVars, printVars, queue, senderAlive, rwVars, exVars, path_buf, sinks,
                   exHist, wHist, faults>>

Worker(w) == WorkerRecv(w) \/ WorkerProcess(w) \/ WorkerCheckClosed(w)

Explorer ==
    \/ ExploreStart
    \/ ExplorePop
    \/ ExploreEntry
    \/ ExploreEndOfDir
    \/ ExploreEntryError
    \/ ExploreSend

RunWorkers == RunWorkersStart \/ RunWorkersSpawn \/ RunWorkersJoin

Next ==
    \/ RunWorkersStart
    \/ RunWorkersSpawn
    \/ RunWorkersJoin
    \/ ExploreStart
    \/ ExplorePop
    \/ ExploreEntry
    \/ ExploreEndOfDir
    \/ ExploreEntryError
    \/ ExploreSend
    \/ \E w \in WorkerIds : WorkerRecv(w)
    \/ \E w \in WorkerIds : WorkerProcess(w)
    \/ \E w \in WorkerIds : WorkerCheckClosed(w)

Spec == Init /\ [][Next]_vars


\* Scheduling: the explorer runs on the thread of block_on, every worker is a
\* task of the smol executor, and run_workers is polled by join!; each of
\* them takes its next step whenever it stays able to.
FairSpec ==
    /\ Spec
    /\ WF_vars(Explorer)
    /\ WF_vars(RunWorkers)
    /\ \A w \in WorkerIds : WF_vars(Worker(w))

(***************************************************************************)
(* main: the --hash-list argument, then the pipeline.                      *)
(***************************************************************************)
UpperChar(c) ==
    CASE c = "x" -> "X"
      [] c = "h" -> "H"
      [] c = "m" -> "M"
      [] c = "d" -> "D"
      [] OTHER -> c

ToUppercase(s) == [i \in 1..Len(s) |-> UpperChar(s[i])]

\* the ways the model spells one token of the argument: as it is, in upper
\* case, between spaces, after a tab, and with a space inside
Spellings(t) ==
    {t, ToUppercase(t), <<" ">> \o t \o <<" ">>, <<"\t">> \o t,
     IF t = <<>> THEN t ELSE <<Head(t), " ">> \o Tail(t)}

RawTokens == UNION {Spellings(t) : t \in {Xxh64Name, Xxh3Name, BogusName, <<>>}}

\* the values of --hash-list: up to MaxTokens tokens joined by commas
HashListArgs ==
    {JoinStr(l, <<",">>) : l \in UNION {[1..n -> RawTokens] : n \in 1..MaxTokens}}

\* main is entered on a root directory holding the file a, either with a
\* hash list and one job, or without a hash list and any number of jobs
InitMain ==
    /\ rootKind = "dir"
    /\ fs = {<<"a">>}
    /\ \/ /\ hash_list \in HashListArgs
          /\ number_of_workers = 1
       \/ /\ hash_list = NoHashList
          /\ number_of_workers \in 0..MaxWorkers
    /\ mainPc = "args"
    /\ valid_hash = <<>>
    /\ invalid_hash = <<>>
    /\ hash_algorithms = <<>>
    /\ cap = 0
    /\ rwPc = "main"
    /\ exPc = "main"
    /\ Fresh

pipeVars == <<queue, senderAlive, receivers, workers, task_hash_algorithms,
              exResult, dir_stack, dir, dir_entries, sending, wPc, path_buf,
              stdout, sent, received, pushed, skipped, outcome, faults>>

\* main.rs lines 65-79: the hash list is checked; an unimplemented name ends
\* the process with status 1, and no list means the default algorithm
MainHashList ==
    /\ mainPc = "args"
    /\ IF hash_list = NoHashList
       THEN /\ hash_algorithms' = <<default_hash>>
            /\ mainPc' = "jobs"
            /\ UNCHANGED <<valid_hash, invalid_hash, stderr>>
       ELSE /\ valid_hash' = check_hash(hash_list)[1]
            /\ invalid_hash' = check_hash(hash_list)[2]
            /\ IF invalid_hash' # <<>>
               THEN /\ stderr' = Append(stderr, [what |-> "unimplemented",
                                                 path |-> NoPath])
                    /\ mainPc' = "exit"
                    /\ UNCHANGED hash_algorithms
               ELSE /\ hash_algorithms' = valid_hash'
                    /\ mainPc' = "jobs"
                    /\ UNCHANGED stderr
    /\ UNCHANGED <<rootKind, fs, number_of_workers, hash_list, cap, rwPc, exPc,
                   pipeVars, calcVars, printVars>>

\* main.rs lines 81-98: the channel is created with one slot per job and the
\* two futures are handed to join!; channel::bounded panics on a capacity
\* of zero
MainJoin ==
    /\ mainPc = "jobs"
    /\ IF number_of_workers = 0
       THEN /\ mainPc' = "panic"
            /\ UNCHANGED <<cap, rwPc, exPc>>
       ELSE /\ cap' = number_of_workers
            /\ rwPc' = "start"
            /\ exPc' = "start"
            /\ mainPc' = "join"
    /\ UNCHANGED <<fsVars, hash_algorithms, stderr, pipeVars, calcVars, printVars>>

NextMain ==
    \/ MainHashList
    \/ MainJoin
    \/ Next

SpecMain == InitMain /\ [][NextMain]_vars

(***************************************************************************)
(* calc_hashes followed read by read, for the one task a worker holds.     *)
(***************************************************************************)
\* the lists of up to MaxAlgorithms names run_workers may be given
NameLists ==
    UNION {[1..n -> {Xxh64Name, Xxh3Name, BogusName}] : n \in 0..MaxAlgorithms}

\* run_workers and explore_path joined by a caller of the library that
\* passes any such list: one worker, a root directory holding the file a
InitLists ==
    /\ rootKind = "dir"
    /\ fs = {<<"a">>}
    /\ hash_list = NoHashList
    /\ mainPc = "join"
    /\ valid_hash = <<>>
    /\ invalid_hash = <<>>
    /\ number_of_workers = 1
    /\ hash_algorithms \in NameLists
    /\ cap = 1
    /\ rwPc = "start"
    /\ exPc = "start"
    /\ Fresh

SpecLists == InitLists /\ [][Next]_vars

\* the one worker of a pool has received the only file of the tree, the
\* explorer has returned, and the worker is about to call calc_hashes
InitCalc ==
    /\ rootKind = "dir"
    /\ fs \in {{<<"a">>}, {<<"c">>}, {<<"d">>, <<"d", "b">>}}
    /\ hash_list = NoHashList
    /\ mainPc = "join"
    /\ valid_hash = <<>>
    /\ invalid_hash = <<>>
    /\ number_of_workers = 1
    /\ hash_algorithms \in NameLists
    /\ cap = 1
    /\ queue = <<>>
    /\ senderAlive = FALSE
    /\ receivers = 2
    /\ rwPc = "join"
    /\ workers = 1
    /\ task_hash_algorithms = FilterMapFromString(hash_algorithms)
    /\ exPc = "done"
    /\ exResult = "Ok"
    /\ dir_stack = <<>>
    /\ dir = NoPath
    /\ dir_entries = {}
    /\ sending = NoPath
    /\ wPc = [w \in WorkerIds |-> IF w = 1 THEN "process" ELSE "unspawned"]
    /\ \E p \in {q \in fs : NodeKind(q) = "file"} :
          /\ path_buf = [w \in WorkerIds |-> IF w = 1 THEN p ELSE NoPath]
          /\ sent = <<p>>
          /\ received = <<p>>
    /\ calcPc = "open"
    /\ opened = 0
    /\ file_pos = 0
    /\ bytes_read = 0
    /\ file_hashers = <<>>
    /\ file_hashes = <<>>
    /\ fedTo = <<>>
    /\ PrintIdle
    /\ stdout = <<>>
    /\ stderr = <<>>
    /\ pushed = IF <<"d">> \in fs THEN {<<"d">>} ELSE {}
    /\ skipped = {}
    /\ outcome = {}
    /\ faults = 0

\* everything calc_hashes leaves alone
restVars == <<fsVars, mainVars, printVars, rwVars, exVars, exHist, wHist,
              sinks, queue, senderAlive, receivers, wPc, path_buf>>

\* the bytes of the file calc_hashes is given
FileBytes == Content(Canon(path_buf[1], rootKind, fs))

\* lines 177-185: the file is opened and one hasher per algorithm is made
CalcOpen ==
    /\ calcPc = "open"
    /\ opened' = opened + 1
    /\ file_pos' = 0
    /\ file_hashers' = [i \in 1..Len(task_hash_algorithms) |->
                            NewHasher(task_hash_algorithms[i])]
    /\ fedTo' = [i \in 1..Len(task_hash_algorithms) |-> <<>>]
    /\ calcPc' = "read"
    /\ UNCHANGED <<restVars, bytes_read, file_hashes, faults>>

\* line 177: File::open fails and `?` returns the error
CalcOpenError ==
    /\ calcPc = "open"
    /\ MayFail
    /\ faults' = faults + 1
    /\ calcPc' = "err"
    /\ UNCHANGED <<restVars, opened, file_pos, bytes_read, file_hashers,
                   file_hashes, fedTo>>

\* lines 189-192: one read; it returns 0 at the end of the file only, and
\* otherwise any number of bytes up to the buffer's size
CalcRead ==
    /\ calcPc = "read"
    /\ \E n \in IF file_pos = Len(FileBytes) THEN {0}
                 ELSE 1..Min(Len(FileBytes) - file_pos, BufferSize) :
          /\ bytes_read' = n
          /\ file_pos' = file_pos + n
          /\ calcPc' = IF n = 0 THEN "finish" ELSE "update"
    /\ UNCHANGED <<restVars, opened, file_hashers, file_hashes, fedTo, faults>>

\* line 189: the read fails and `?` returns the error
CalcReadError ==
    /\ calcPc = "read"
    /\ MayFail
    /\ faults' = faults + 1
    /\ calcPc' = "err"
    /\ UNCHANGED <<restVars, opened, file_pos, bytes_read, file_hashers,
                   file_hashes, fedTo>>

\* the bytes of the buffer the last read has filled
Chunk == SubSeq(FileBytes, file_pos - bytes_read + 1, file_pos)

\* CalcUpdate giving the chunk to the first hasher only
CalcUpdateFirstOnly ==
    /\ calcPc = "update"
    /\ file_hashers' = [i \in 1..Len(file_hashers) |->
                            IF i = 1 THEN HasherUpdate(file_hashers[i], Chunk)
                            ELSE file_hashers[i]]
    /\ fedTo' = [i \in 1..Len(fedTo) |->
                    IF i = 1 THEN Append(fedTo[i], Chunk) ELSE fedTo[i]]
    /\ calcPc' = "read"
    /\ UNCHANGED <<restVars, opened, file_pos, bytes_read, file_hashes, faults>>

\* lines 194-196: every hasher is given the chunk
CalcUpdate ==
    /\ calcPc = "update"
    /\ file_hashers' = UpdateAll(file_hashers, Chunk)
    /\ fedTo' = [i \in 1..Len(fedTo) |-> Append(fedTo[i], Chunk)]
    /\ calcPc' = "read"
    /\ UNCHANGED <<restVars, opened, file_pos, bytes_read, file_hashes, faults>>

\* lines 199-200: the digests are collected and returned
CalcFinish ==
    /\ calcPc = "finish"
    /\ file_hashes' = [i \in 1..Len(file_hashers) |-> HasherFinish(file_hashers[i])]
    /\ calcPc' = "done"
    /\ UNCHANGED <<restVars, opened, file_pos, bytes_read, file_hashers, fedTo,
                   faults>>

NextCalc ==
    \/ CalcOpen
    \/ CalcOpenError
    \/ CalcRead
    \/ CalcReadError
    \/ CalcUpdate
    \/ CalcFinish

SpecCalc == InitCalc /\ [][NextCalc]_vars

(***************************************************************************)
(* println! of line 163, while two workers print at the same time.  The    *)
(* macro locks the standard output, writes the pieces of the formatted     *)
(* line one after the other, and releases the lock.                        *)
(***************************************************************************)
\* two workers hold the two files of the tree with their hashes and sizes
\* computed, the explorer has returned
InitPrint ==
    /\ rootKind = "dir"
    /\ fs = {<<"a">>, <<"c">>}
    /\ hash_list = NoHashList
    /\ mainPc = "join"
    /\ valid_hash = <<>>
    /\ invalid_hash = <<>>
    /\ number_of_workers = 2
    /\ hash_algorithms \in NameLists
    /\ cap = 1
    /\ queue = <<>>
    /\ senderAlive = FALSE
    /\ receivers = 3
    /\ rwPc = "join"
    /\ workers = 2
    /\ task_hash_algorithms = FilterMapFromString(hash_algorithms)
    /\ exPc = "done"
    /\ exResult = "Ok"
    /\ dir_stack = <<>>
    /\ dir = NoPath
    /\ dir_entries = {}
    /\ sending = NoPath
    /\ wPc = [w \in WorkerIds |-> IF w <= 2 THEN "process" ELSE "unspawned"]
    /\ \E p, q \in fs :
          /\ p # q
          /\ path_buf = [w \in WorkerIds |->
                            IF w = 1 THEN p ELSE IF w = 2 THEN q ELSE NoPath]
          /\ sent \in {<<p, q>>, <<q, p>>}
          /\ received = sent
    /\ CalcIdle
    /\ printPc = [w \in WorkerIds |-> IF w <= 2 THEN "format" ELSE "idle"]
    /\ line_pos = [w \in WorkerIds |-> 0]
    /\ stdout_lock = 0
    /\ stdout_pieces = <<>>
    /\ stdout = <<>>
    /\ stderr = <<>>
    /\ pushed = {}
    /\ skipped = {}
    /\ outcome = {}
    /\ faults = 0

\* everything println! leaves alone
printRest == <<fsVars, mainVars, calcVars, rwVars, exVars, exHist, received,
               queue, senderAlive, receivers, stderr, faults>>

\* the record worker w is printing
LineOf(w) ==
    Record(path_buf[w],
           calc_hashes(Content(Canon(path_buf[w], rootKind, fs)),
                       IF Content(Canon(path_buf[w], rootKind, fs)) = <<>>
                       THEN <<>>
                       ELSE <<Len(Content(Canon(path_buf[w], rootKind, fs)))>>,
                       task_hash_algorithms),
           Len(Content(Canon(path_buf[w], rootKind, fs))))

\* "{label:}{delimiter}{hash:}{delimiter}{size:}{delimiter}{path_buf:?}\n"
PiecesOfLine == <<"label", "delimiter", "hash", "delimiter", "size",
                  "delimiter", "path_buf", "newline">>

\* PrintLock that does not wait for the lock
PrintLockNoWait(w) ==
    /\ printPc[w] = "format"
    /\ stdout_lock' = w
    /\ printPc' = [printPc EXCEPT ![w] = "write"]
    /\ UNCHANGED <<printRest, wPc, path_buf, outcome, line_pos, stdout_pieces,
                   stdout>>

\* println! takes the lock of Stdout, waiting while another thread holds it
PrintLock(w) ==
    /\ printPc[w] = "format"
    /\ stdout_lock = 0
    /\ stdout_lock' = w
    /\ printPc' = [printPc EXCEPT ![w] = "write"]
    /\ UNCHANGED <<printRest, wPc, path_buf, outcome, line_pos, stdout_pieces,
                   stdout>>

\* the next piece of the line is written
PrintWrite(w) ==
    /\ printPc[w] = "write"
    /\ line_pos[w] < Len(PiecesOfLine)
    /\ line_pos' = [line_pos EXCEPT ![w] = line_pos[w] + 1]
    /\ stdout_pieces' = Append(stdout_pieces,
                               [by |-> w, path |-> path_buf[w],
                                piece |-> line_pos[w] + 1,
                                what |-> PiecesOfLine[line_pos[w] + 1]])
    /\ UNCHANGED <<printRest, wPc, path_buf, outcome, printPc, stdout_lock,
                   stdout>>

\* the line is complete: the lock is released and the worker goes on to
\* line 166
PrintUnlock(w) ==
    /\ printPc[w] = "write"
    /\ line_pos[w] = Len(PiecesOfLine)
    /\ stdout_lock' = IF stdout_lock = w THEN 0 ELSE stdout_lock
    /\ stdout' = Append(stdout, LineOf(w))
    /\ outcome' = outcome \cup {<<path_buf[w], "ok">>}
    /\ path_buf' = [path_buf EXCEPT ![w] = NoPath]
    /\ printPc' = [printPc EXCEPT ![w] = "idle"]
    /\ wPc' = [wPc EXCEPT ![w] = "check"]
    /\ UNCHANGED <<printRest, line_pos, stdout_pieces>>

NextPrint ==
    \/ \E w \in WorkerIds : PrintLock(w)
    \/ \E w \in WorkerIds : PrintWrite(w)
    \/ \E w \in WorkerIds : PrintUnlock(w)

SpecPrint == InitPrint /\ [][NextPrint]_vars

(***************************************************************************)
(* Helpers of the properties.                                              *)
(***************************************************************************)
Range(seq) == {seq[i] : i \in 1..Len(seq)}
Count(seq, x) == Cardinality({i \in 1..Len(seq) : seq[i] = x})
RecordsOf(p) == Cardinality({i \in 1..Len(stdout) : stdout[i].path = p})
ReportsOf(p) == Cardinality({i \in 1..Len(stderr) : stderr[i].path = p})
Failures == {"hash_err", "size_err"}
FailedPaths == {po[1] : po \in {x \in outcome : x[2] \in Failures}}
\* a run in which nothing fails, over a tree without symbolic links
CleanRun == faults = 0 /\ \A p \in fs : NodeKind(p) # "symlink"
AllDone ==
    /\ exPc = "done"
    /\ rwPc = "returned"
    /\ \A w \in 1..ClampedWorkers : wPc[w] = "done"

(***************************************************************************)
(* C1.  A worker leaves its loop only when the channel is closed and its   *)
(* buffer is empty: no worker is done while a task is still buffered.      *)
(* Stated for the runs in which no I/O fails and the tree holds no         *)
(* symbolic link, so that a violation owes nothing to those cases.         *)
(***************************************************************************)
C1_WorkerExitsOnlyWhenDrained ==
    CleanRun =>
        \A w \in WorkerIds : wPc[w] = "done" => (IsClosed /\ queue = <<>>)

(***************************************************************************)
(* C2.  When run_workers has returned, every path the explorer enqueued    *)
(* has been received by a worker, and every enqueued path for which no     *)
(* open, read or metadata failure happened has exactly one record.         *)
(* Stated for trees without symbolic links and runs in which the explorer  *)
(* returned Ok, so that a violation owes nothing to those cases.           *)
(***************************************************************************)
C2_EveryEnqueuedPathHashed ==
    (rwPc = "returned" /\ exResult = "Ok"
        /\ \A q \in fs : NodeKind(q) # "symlink") =>
        \A p \in Range(sent) :
            /\ p \in Range(received)
            /\ (\A o \in Outcomes \ {"ok"} : <<p, o>> \notin outcome)
                  => RecordsOf(p) = 1

(***************************************************************************)
(* C3.  Every task sent on the channel is received at most once, is never  *)
(* put back (a sent task is either still buffered or was received, never   *)
(* both and never twice), yields at most one record, and no two workers    *)
(* hold the same task at the same time.                                    *)
(***************************************************************************)
C3_ExactlyOnceConsumption ==
    /\ \A p \in Range(sent) \cup Range(received) \cup Range(queue) :
          /\ Count(received, p) + Count(queue, p) = Count(sent, p)
          /\ Count(received, p) <= 1
          /\ RecordsOf(p) <= Count(received, p)
    /\ \A i \in 1..Len(stdout) : stdout[i].path \in Range(received)
    /\ \A w1, w2 \in WorkerIds :
          (w1 # w2 /\ path_buf[w1] # NoPath) => path_buf[w1] # path_buf[w2]

\* with two workers running, two tasks were received and both have their record
C3_Witness ==
    /\ workers = 2
    /\ Len(received) = 2
    /\ Len(stdout) = 2
    /\ stdout[1].path # stdout[2].path

(***************************************************************************)
(* C4.  With a root path that does not exist, explore_path returns Err     *)
(* having sent nothing, the channel is closed from then on, no record is   *)
(* ever emitted, and run_workers eventually returns.                       *)
(***************************************************************************)
C4_RootNotFound ==
    /\ [](rootKind = "missing" =>
            /\ sent = <<>> /\ queue = <<>> /\ stdout = <<>>
            /\ exPc = "done" => (exResult = "Err" /\ IsClosed))
    /\ (rootKind = "missing" ~>
            (rwPc = "returned" /\ exResult = "Err" /\ stdout = <<>>))

C4_Witness ==
    rootKind = "missing" /\ AllDone /\ exResult = "Err" /\ workers = 2

(***************************************************************************)
(* C5.  For every existing root path explore_path returns Ok, whatever     *)
(* fails at directory level during the traversal, and no pending directory *)
(* is left untraversed.                                                    *)
(***************************************************************************)
C5_OnlyRootCheckIsFatal ==
    (exPc = "done" /\ rootKind # "missing") =>
        (exResult = "Ok" /\ dir_stack = <<>>)

(***************************************************************************)
(* C6.  The explorer enqueues exactly the regular files of the readable    *)
(* tree, each once; it never enqueues a directory, and it neither enqueues *)
(* a symbolic link nor pushes one on the directory stack.                  *)
(***************************************************************************)
RegularFiles == {p \in fs : NodeKind(p) = "file"}

C6_ExplorerEnqueuesRegularFilesOnly ==
    /\ \A p \in Range(sent) : p \in RegularFiles /\ Count(sent, p) = 1
    /\ \A p \in pushed : p \in fs /\ NodeKind(p) = "dir"
    /\ (exPc = "done" /\ exResult = "Ok" /\ skipped = {} /\ rootKind = "dir")
          => (Range(sent) = RegularFiles /\ Len(sent) = Cardinality(RegularFiles))


(***************************************************************************)
(* C7.  When opening, reading or the metadata query of a file fails in a   *)
(* worker, exactly one error report naming that path is written, no record *)
(* is ever written for it, and the worker goes back to receiving: it does  *)
(* not leave its loop because of the failure.                              *)
(***************************************************************************)
C7_PerFileFailureIsolation ==
    /\ [](\A p \in FailedPaths : ReportsOf(p) = 1 /\ RecordsOf(p) = 0)
    /\ [][\A w \in WorkerIds :
            (wPc[w] = "process" /\ wPc'[w] # "process" /\ stdout' = stdout
                /\ <<path_buf[w], "not_file">> \notin outcome')
            => /\ wPc'[w] = "recv"
               /\ Len(stderr') = Len(stderr) + 1
               /\ stderr'[Len(stderr')].path = path_buf[w]
               /\ \A v \in WorkerIds \ {w} : wPc'[v] = wPc[v]]_vars

\* one worker alone: a file failed, and a file received after it has its record
C7_Witness ==
    /\ workers = 1
    /\ \E i, j \in 1..Len(received) :
          /\ i < j
          /\ received[i] \in FailedPaths
          /\ RecordsOf(received[j]) = 1

(***************************************************************************)
(* C8.  Under fair scheduling the explorer returns, every worker leaves    *)
(* its loop and run_workers returns: no run stays blocked on a full or on  *)
(* an empty queue.                                                         *)
(***************************************************************************)
C8_PipelineTerminates == <>AllDone

\* everything has returned after the explorer had to wait for room in a
\* channel of capacity one, with two workers
C8_Witness ==
    AllDone /\ Len(sent) >= 2 /\ cap = 1 /\ workers = 2

(***************************************************************************)
(* C9.  Digest order and count: with the hash list main has validated      *)
(* (repeated identifiers included), every record printed carries exactly   *)
(* one digest per entry of the list, and the i-th digest is the digest of  *)
(* the file's content by the algorithm the i-th entry names.               *)
(***************************************************************************)
\* the digest of the whole content by the algorithm an identifier names
DigestBy(name, content) ==
    IF name = Xxh64Name
    THEN HasherFinish(HasherUpdate(NewHasher("Xxh64"), content))
    ELSE HasherFinish(HasherUpdate(NewHasher("Xxh3"), content))

C9_DigestOrderAndCount ==
    \A r \in 1..Len(stdout) :
        LET digests == Split(stdout[r].hash, ",")
            content == Content(Canon(stdout[r].path, rootKind, fs))
        IN  /\ Len(digests) = Len(hash_algorithms)
            /\ \A i \in 1..Len(digests) :
                  digests[i] = DigestBy(hash_algorithms[i], content)

\* a record was printed for a list that names one algorithm twice
C9_Witness ==
    /\ mainPc = "join"
    /\ Len(stdout) = 1
    /\ hash_algorithms = <<Xxh3Name, Xxh3Name>>
    /\ Len(Content(Canon(stdout[1].path, rootKind, fs))) > 1

(***************************************************************************)
(* C10.  check_hash partitions the comma-separated input.                  *)
(***************************************************************************)
InRegistry(t) == t \in Range(variants)
NotInRegistry(t) == t \notin Range(variants)
Whitespace == {" ", "\t"}
NotWhitespace(c) == c \notin Whitespace
\* the tokens of the argument, each put between two spaces
SpacedOut(s) ==
    LET tokens == Split(s, ",")
    IN  JoinStr([i \in 1..Len(tokens) |-> <<" ">> \o tokens[i] \o <<" ">>], <<",">>)

\* C10 as stated: the tokens are compared after all whitespace is stripped
\* from them and they are lower-cased; valid holds the registry identifiers
\* among them and invalid the rest, both in input order.
C10_AsStated ==
    (mainPc # "args" /\ hash_list # NoHashList) =>
        LET tokens == Split(hash_list, ",")
            norm == [i \in 1..Len(tokens) |->
                        ToLowercase(SelectSeq(tokens[i], NotWhitespace))]
        IN  /\ valid_hash = SelectSeq(norm, InRegistry)
            /\ invalid_hash = SelectSeq(norm, NotInRegistry)

\* C10 as amended: only the space character U+0020 is stripped, wherever it
\* stands, and the letters are lower-cased; every token then is in exactly
\* one of valid (the registry identifiers) and invalid (the rest), each in
\* input order; the same input in upper case, or with spaces around its
\* tokens, gives the same result.
C10_CheckHashPartitions ==
    (mainPc # "args" /\ hash_list # NoHashList) =>
        LET tokens == Split(hash_list, ",")
            norm == [i \in 1..Len(tokens) |->
                        ToLowercase(RemoveAll(tokens[i], " "))]
        IN  /\ valid_hash = SelectSeq(norm, InRegistry)
            /\ invalid_hash = SelectSeq(norm, NotInRegistry)
            /\ Len(valid_hash) + Len(invalid_hash) = Len(tokens)
            /\ check_hash(ToUppercase(hash_list)) = <<valid_hash, invalid_hash>>
            /\ check_hash(SpacedOut(hash_list)) = <<valid_hash, invalid_hash>>

\* an argument with spaces in it was split into one implemented and one
\* unimplemented name, and main has exited
C10_Witness ==
    /\ mainPc = "exit"
    /\ hash_list # NoHashList
    /\ " " \in Range(hash_list)
    /\ hash_list # ToLowercase(hash_list)
    /\ valid_hash = <<Xxh64Name>>
    /\ invalid_hash = <<BogusName>>

(***************************************************************************)
(* C11.  Worker-count clamp: run_workers started with number_of_workers =  *)
(* 0 spawns exactly one worker and started with n >= 1 exactly n; never    *)
(* are more than max(1, n) workers running.                                *)
(***************************************************************************)
WorkersWanted == IF number_of_workers = 0 THEN 1 ELSE number_of_workers
Running == {w \in WorkerIds : wPc[w] \notin {"unspawned", "done"}}

C11_WorkerCountClamp ==
    /\ workers <= WorkersWanted
    /\ rwPc \in {"join", "returned"} => workers = WorkersWanted
    /\ Cardinality(Running) <= WorkersWanted

\* run_workers was started with 0 and its one worker is running
C11_Witness ==
    /\ number_of_workers = 0
    /\ rwPc = "join"
    /\ workers = 1
    /\ Cardinality(Running) = 1

(***************************************************************************)
(* C12.  Backpressure bound: the channel never buffers more tasks than its *)
(* capacity, and the tasks in flight (buffered or held by a worker) never  *)
(* exceed capacity + worker count; a send completes only when the buffer   *)
(* has room, and it puts the task into the buffer.                         *)
(***************************************************************************)
Held == {w \in WorkerIds : path_buf[w] # NoPath}

C12_BackpressureBound ==
    /\ [](/\ Len(queue) <= cap
          /\ Len(queue) + Cardinality(Held) <= cap + WorkersWanted)
    /\ [][(exPc = "send" /\ exPc' # "send")
            => (Len(queue) < cap /\ queue' = Append(queue, sending))]_vars

\* capacity one, one worker: the second task entered the buffer after the
\* worker had taken the first, which it still holds
C12_Witness ==
    /\ cap = 1
    /\ workers = 1
    /\ Len(sent) = 2
    /\ Len(queue) = 1
    /\ Cardinality(Held) = 1

(***************************************************************************)
(* C13.  FileVanished: a path that is no regular file any more when the    *)
(* worker has received it is reported on the error sink, gets no record,   *)
(* and the worker goes on with the next task.                              *)
(***************************************************************************)
Vanished == {po[1] : po \in {x \in outcome : x[2] = "not_file"}}

C13_FileVanishedReported ==
    \A p \in Vanished : ReportsOf(p) >= 1 /\ RecordsOf(p) = 0

(***************************************************************************)
(* C14.  Single read pass: calc_hashes opens the file once and reads it    *)
(* in order; when a read is issued every hasher has been given all the     *)
(* bytes read before it, so what each hasher was given, chunk after chunk, *)
(* is the file's byte sequence whatever the sizes of the reads; the        *)
(* digests are taken only at the end of the file and equal those of one    *)
(* read of the whole file.                                                 *)
(***************************************************************************)
RECURSIVE Flatten(_)
Flatten(chunks) ==
    IF chunks = <<>> THEN <<>> ELSE Head(chunks) \o Flatten(Tail(chunks))

\* the digests of the file read in one piece
WholeFileDigests ==
    [i \in 1..Len(task_hash_algorithms) |->
        HasherFinish(HasherUpdate(NewHasher(task_hash_algorithms[i]), FileBytes))]

C14_SingleReadPass ==
    /\ opened <= 1
    /\ calcPc \in {"read", "update", "finish", "done"} =>
          /\ opened = 1
          /\ Len(fedTo) = Len(task_hash_algorithms)
          /\ Len(file_hashers) = Len(task_hash_algorithms)
    /\ calcPc \in {"read", "finish", "done"} =>
          \A i \in 1..Len(fedTo) : Flatten(fedTo[i]) = SubSeq(FileBytes, 1, file_pos)
    /\ calcPc = "update" =>
          \A i \in 1..Len(fedTo) :
              Flatten(fedTo[i]) = SubSeq(FileBytes, 1, file_pos - bytes_read)
    /\ calcPc \in {"finish", "done"} => file_pos = Len(FileBytes)
    /\ calcPc # "done" => file_hashes = <<>>
    /\ calcPc = "done" => file_hashes = WholeFileDigests

\* two algorithms, and the file came in two reads shorter than the file
C14_Witness ==
    /\ calcPc = "done"
    /\ Len(file_hashes) = 2
    /\ Len(fedTo[1]) = 2
    /\ Len(fedTo[2]) = 2

(***************************************************************************)
(* C15.  Registry agreement between the names check_hash accepts (the      *)
(* variant names of HasherWrapper) and the names HashAlgorithm::from_string *)
(* turns into an algorithm.                                                *)
(***************************************************************************)
\* the strings the two registries are asked about: the tokens of the
\* argument as given, and as check_hash cleans them
Candidates ==
    RawTokens \cup {ToLowercase(RemoveAll(t, " ")) : t \in RawTokens}
Constructible == {t \in Candidates : from_string(t) # NoAlgorithm}

\* C15 as stated: the names from_string accepts are the variant names, the
\* default is one of them, and no name of a validated list is dropped.
C15_AsStated ==
    /\ Constructible = Range(variants)
    /\ default_hash \in Range(variants)
    /\ (mainPc = "join" /\ rwPc \notin {"main", "start"}) =>
          Len(task_hash_algorithms) = Len(hash_algorithms)

\* C15 as amended: from_string accepts every variant name, and besides
\* them exactly the strings that differ from one in letter case only; the
\* default is a variant name; every name of a validated list is
\* constructible and run_workers drops none.
C15_RegistryAgreement ==
    /\ Range(variants) \subseteq Constructible
    /\ \A t \in Candidates :
          t \in Constructible <=> ToLowercase(t) \in Range(variants)
    /\ default_hash \in Range(variants)
    /\ mainPc = "join" =>
          \A i \in 1..Len(hash_algorithms) :
              from_string(hash_algorithms[i]) # NoAlgorithm
    /\ (mainPc = "join" /\ rwPc \notin {"main", "start"}) =>
          /\ Len(task_hash_algorithms) = Len(hash_algorithms)
          /\ \A i \in 1..Len(hash_algorithms) :
                task_hash_algorithms[i] = from_string(hash_algorithms[i])

\* run_workers has converted a list of two names that main validated from
\* an argument not written in lower case
C15_Witness ==
    /\ mainPc = "join"
    /\ rwPc = "join"
    /\ hash_list # NoHashList
    /\ hash_list # ToLowercase(hash_list)
    /\ Len(hash_algorithms) = 2
    /\ Len(task_hash_algorithms) = 2

(***************************************************************************)
(* C16.  Atomic record lines: when several workers print at the same time  *)
(* every line reaches the standard output in one piece; no part of one     *)
(* worker's line stands inside the line of another.                        *)
(***************************************************************************)
C16_AtomicRecordLines ==
    /\ \A i, j, k \in 1..Len(stdout_pieces) :
          (i < k /\ k < j /\ stdout_pieces[i].by = stdout_pieces[j].by)
              => stdout_pieces[k].by = stdout_pieces[i].by
    /\ \A i \in 1..Len(stdout_pieces) :
          stdout_pieces[i].piece = ((i - 1) % Len(PiecesOfLine)) + 1
    /\ \A w \in WorkerIds : printPc[w] = "write" => stdout_lock = w

\* one worker's line is complete on the output while the other worker,
\* which was ready to print all along, has written the first half of its own
C16_Witness ==
    /\ Len(stdout) = 1
    /\ Len(stdout_pieces) = Len(PiecesOfLine) + 4
    /\ \E w \in WorkerIds : printPc[w] = "write" /\ line_pos[w] = 4

(***************************************************************************)
(* C17.  No worker leaves its loop while the explorer still holds the      *)
(* sender: if a worker has left, the channel is closed; so while the       *)
(* explorer is sending, every worker is still there to receive.            *)
(***************************************************************************)
C17_NoWorkerLeavesBeforeClose ==
    /\ (\E w \in WorkerIds : wPc[w] = "done") => (~senderAlive /\ exPc = "done")
    /\ exPc = "send" =>
          /\ workers = WorkersWanted
          /\ \A w \in 1..workers : wPc[w] \in {"recv", "process", "check"}

\* the explorer is sending its second task, and a worker that has just
\* printed the record of the first is at its check of is_closed
C17_Witness ==
    /\ exPc = "send"
    /\ Len(sent) = 1
    /\ Len(stdout) = 1
    /\ \E w \in WorkerIds : wPc[w] = "check"

(***************************************************************************)
(* C18.  Root is a regular file: explore_path returns Ok and sends no      *)
(* task, and the pipeline completes without a record; the root file itself *)
(* is not hashed.                                                          *)
(***************************************************************************)
C18_RootIsRegularFile ==
    /\ [](rootKind = "file" =>
            /\ sent = <<>>
            /\ stdout = <<>>
            /\ exPc = "done" => exResult = "Ok")
    /\ (rootKind = "file") ~> (AllDone /\ exResult = "Ok" /\ stdout = <<>>)

\* read_dir of the root file has failed, the explorer has returned Ok and
\* two workers have left
C18_Witness ==
    /\ rootKind = "file"
    /\ skipped = {<<>>}
    /\ exResult = "Ok"
    /\ workers = 2
    /\ AllDone

(***************************************************************************)
(* C19.  Queue capacity from configuration: for every number of jobs main  *)
(* accepts, 0 included, the channel is created with a capacity of at least *)
(* 1 and the pipeline starts and runs with max(1, jobs) workers.           *)
(***************************************************************************)
C19_QueueCapacityFromJobs ==
    /\ mainPc # "panic"
    /\ mainPc = "join" => cap >= 1
    /\ (mainPc = "join" /\ rwPc \in {"join", "returned"}) =>
          workers = WorkersWanted

(***************************************************************************)
(* C20.  Unrecognised identifiers in run_workers: a name of the list that  *)
(* from_string does not recognise is dropped without any error; every      *)
(* record carries the digests of the recognised names, in their order, and *)
(* with no recognised name the records are printed with an empty digest    *)
(* field.                                                                  *)
(***************************************************************************)
Recognised(name) == ToLowercase(name) \in Range(variants)
RecognisedNames == SelectSeq(hash_algorithms, Recognised)

C20_UnrecognisedNamesDropped ==
    /\ faults = 0 => stderr = <<>>
    /\ rwPc # "start" =>
          Len(task_hash_algorithms) = Len(RecognisedNames)
    /\ \A r \in 1..Len(stdout) :
          stdout[r].hash =
              JoinStr([i \in 1..Len(RecognisedNames) |->
                          DigestBy(ToLowercase(RecognisedNames[i]),
                                   Content(Canon(stdout[r].path, rootKind, fs)))],
                      delimiter)
    /\ (AllDone /\ exResult = "Ok" /\ faults = 0) => Len(stdout) = Cardinality(fs)

\* the list held no recognised name, and the record of the file was
\* printed with an empty digest field
C20_Witness ==
    /\ hash_algorithms = <<BogusName>>
    /\ task_hash_algorithms = <<>>
    /\ Len(stdout) = 1
    /\ stdout[1].hash = <<>>
    /\ stderr = <<>>

====
